---- MODULE Spec2Model ----
(***************************************************************************)
(* Calibration selection, normalization and dual-rank feed of the          *)
(* prediction-market aggregator.                                           *)
(*                                                                         *)
(* Numbers.  A probability is an integer number of basis points:           *)
(* 10000 stands for 1.0, 500 for 0.05.  A stored ai_calibrated_odds_pct    *)
(* has two decimals of a percent, so it is an integer number of basis      *)
(* points too (4545 stands for 45.45).  Absent stands for a missing key    *)
(* or None.  Volumes are whole numbers.                                    *)
(***************************************************************************)
EXTENDS Integers, Sequences, FiniteSets, TLC

Absent == 0 - 1

\* What a field of a raw market record can hold besides a number or nothing:
\* null; a string that is no number; for outcomePrices an empty list ([] or
\* "[]") and a value that is no list of numbers (a string that is no JSON, a
\* list whose first element is no number).  Raises is the outcome of a call
\* that an exception leaves.
Null == 0 - 2
NonNumeric == 0 - 3
EmptyList == 0 - 4
Malformed == 0 - 5
Raises == 0 - 6
IsNumber(v) == v >= 0

\* float(v): TypeError on None, ValueError on a string that is no number
FloatOf(v) == IF IsNumber(v) THEN v ELSE Raises

\* ---------------------------------------------------------------- bounds
MaxCards == 3
MaxPage == 3
MaxPageSize == 2

\* ------------------------------------------------------ program constants
CANDIDATE_POOL_SIZE == 100
MIN_PROBABILITY_THRESHOLD == 500

\* ------------------------------------------------------------- utilities
Min(a, b) == IF a < b THEN a ELSE b
Max(a, b) == IF a > b THEN a ELSE b
Abs(x) == IF x < 0 THEN -x ELSE x
Range(s) == {s[i] : i \in DOMAIN s}

RECURSIVE SumSeq(_)
SumSeq(s) == IF s = <<>> THEN 0 ELSE Head(s) + SumSeq(Tail(s))

\* s[from+1 .. to] as Python's s[from:to]
Slice(s, from, to) ==
  LET lo == Min(from, Len(s))
      hi == Min(to, Len(s))
  IN  IF hi <= lo THEN <<>> ELSE SubSeq(s, lo + 1, hi)

\* all orderings of a finite set
Perms(S) ==
  {p \in [1..Cardinality(S) -> S] : \A i, j \in 1..Cardinality(S) : i # j => p[i] # p[j]}

RECURSIVE SumOver(_, _)
SumOver(f, S) ==
  IF S = {} THEN 0
  ELSE LET x == CHOOSE y \in S : TRUE IN f[x] + SumOver(f, S \ {x})

\* round(num / den) to the nearest integer, ties to the even one (Python's
\* round on the exact quotient); den > 0
RoundHalfEven(num, den) ==
  LET q == num \div den
      r == num % den
  IN  IF 2 * r < den THEN q
      ELSE IF 2 * r > den THEN q + 1
      ELSE IF q % 2 = 0 THEN q ELSE q + 1

\* descending by key, equal keys in the reverse of their input order (what
\* reversing an ascending stable sort would give)
SortDescTiesReversed(items, keys) ==
  LET n == Len(items)
      rank(i) == 1 + Cardinality({j \in 1..n :
                       keys[j] > keys[i] \/ (keys[j] = keys[i] /\ j > i)})
  IN  [p \in 1..n |-> items[CHOOSE i \in 1..n : rank(i) = p]]

\* sorted(items, key=..., reverse=True): descending by key, equal keys keep
\* their input order.  keys[i] is the key of items[i].
StableSortDesc(items, keys) ==
  LET n == Len(items)
      rank(i) == 1 + Cardinality({j \in 1..n :
                       keys[j] > keys[i] \/ (keys[j] = keys[i] /\ j < i)})
  IN  [p \in 1..n |-> items[CHOOSE i \in 1..n : rank(i) = p]]

\* every ordering of items that is descending by key, whatever it does with
\* equal keys (what an unstable sort may return)
AnyOrderSortDesc(items, keys) ==
  LET n == Len(items)
  IN  {[p \in 1..n |-> items[perm[p]]] : perm \in
         {q \in Perms(1..n) : \A a, b \in 1..n : a < b => keys[q[a]] >= keys[q[b]]}}

\* The results one call of sorted() can give: Python's sort is stable, so
\* there is exactly one.
SortOutcomes(items, keys) == {StableSortDesc(items, keys)}

\* ------------------------------------------------- Probability Extractor
\* GeminiAnalyzer._get_market_probability.  The key calculated_odds decides
\* by its presence; outcomePrices is used when it is truthy and its first
\* element converts, every failure there being swallowed; the probability
\* field is converted outside any try.
GetMarketProbability(market) ==
  IF market.calculated_odds # Absent THEN FloatOf(market.calculated_odds)
  ELSE IF IsNumber(market.outcomePrices) THEN market.outcomePrices
  ELSE IF market.probability # Absent THEN FloatOf(market.probability)
  ELSE 0

\* the probability computed at the head of _extract_markets_from_raw_data:
\* float(market["probability"] or 0) outside any try, then outcomePrices when
\* that gave 0.0
ExtractProbability(market) ==
  LET probability == IF market.probability \in {Absent, Null} THEN 0
                     ELSE FloatOf(market.probability)
  IN  IF probability = 0 /\ IsNumber(market.outcomePrices)
        THEN market.outcomePrices
        ELSE probability

\* ------------------------------------------------------- Market Selector
\* a selector that tops the list up to two markets from the ones below the
\* threshold, best first, when fewer than two reach it
ConstructPromptTopUp(event_data) ==
  LET markets == event_data.markets
      probs == [i \in 1..Len(markets) |-> GetMarketProbability(markets[i])]
      ranked == StableSortDesc(markets, probs)
      Listed(m) == ~(GetMarketProbability(m) < MIN_PROBABILITY_THRESHOLD)
      qualified == SelectSeq(ranked, Listed)
      kept == IF Len(qualified) < 2 THEN Slice(ranked, 0, 2) ELSE qualified
  IN  [i \in 1..Len(kept) |->
         [id |-> kept[i].id, probability |-> GetMarketProbability(kept[i])]]

\* the markets _construct_prompt lists for the forecaster, in input order
ConstructPrompt(event_data) ==
  LET Listed(m) == ~(GetMarketProbability(m) < MIN_PROBABILITY_THRESHOLD)
      kept == SelectSeq(event_data.markets, Listed)
  IN  [i \in 1..Len(kept) |->
         [id |-> kept[i].id, probability |-> GetMarketProbability(kept[i])]]

\* ------------------------------------------------ Calibration Classifier
\* A title is the set of the keywords of the two lists that its lower-cased
\* text contains; None and "" contain none.
CumulativeKeywords ==
  {" by ", "hit", "reach", "above", "below", "over", "under",
   "at least", "more than", "less than", "exceed", "surpass"}
CompetitiveKeywords ==
  {"nominee", "winner", "which", "who will win", "who will be",
   "next president", "next prime minister", "champion"}

\* a classifier that looks for a competitive marker before a cumulative one
ShouldNormalizeCompetitiveFirst(event_title, market_count) ==
  IF market_count <= 1 THEN FALSE
  ELSE IF event_title \cap CompetitiveKeywords # {} THEN TRUE
  ELSE IF event_title \cap CumulativeKeywords # {} THEN FALSE
  ELSE TRUE

\* GeminiAnalyzer._should_normalize
ShouldNormalize(event_title, market_count) ==
  IF market_count <= 1 THEN FALSE
  ELSE IF event_title \cap CumulativeKeywords # {} THEN FALSE
  ELSE IF event_title \cap CompetitiveKeywords # {} THEN TRUE
  ELSE TRUE

\* ------------------------------------------------------------ Normalizer
NoEntries == [x \in {} |-> 0]
NoResult == [ok |-> FALSE, markets |-> NoEntries]

OddsOf(ai_markets) == [id \in DOMAIN ai_markets |-> ai_markets[id].ai_calibrated_odds]

\* all_market_probs: market id -> baseline, a later market of the same id
\* replacing an earlier one
AllMarketProbs(original_markets) ==
  LET ids == {original_markets[i].id : i \in 1..Len(original_markets)}
      last(id) == CHOOSE i \in 1..Len(original_markets) :
                    /\ original_markets[i].id = id
                    /\ \A j \in 1..Len(original_markets) :
                         original_markets[j].id = id => j <= i
  IN  [id \in ids |-> GetMarketProbability(original_markets[last(id)])]

\* NormalizationBase with a fallback base of 0.01 instead of 1
NormalizationBaseSmallFallback(ai_markets, all_market_probs, should_normalize) ==
  LET total_ai_prob == SumOver(OddsOf(ai_markets), DOMAIN ai_markets)
      unanalyzed_prob_sum ==
        SumOver(all_market_probs, DOMAIN all_market_probs \ DOMAIN ai_markets)
      base == total_ai_prob + unanalyzed_prob_sum
  IN  IF should_normalize
        THEN (IF base <= 0 THEN 100 ELSE base)
        ELSE 10000

\* normalization_base of transform_to_raw_analysis
NormalizationBase(ai_markets, all_market_probs, should_normalize) ==
  LET total_ai_prob == SumOver(OddsOf(ai_markets), DOMAIN ai_markets)
      unanalyzed_prob_sum ==
        SumOver(all_market_probs, DOMAIN all_market_probs \ DOMAIN ai_markets)
      base == total_ai_prob + unanalyzed_prob_sum
  IN  IF should_normalize
        THEN (IF base <= 0 THEN 10000 ELSE base)
        ELSE 10000

\* round(final_pct, 2) without the division by the base
FinalPctUnscaled(prob, should_normalize, base) == prob

\* round(final_pct, 2), in hundredths of a percent.  The quotient is taken
\* exactly; the float quotient can tip an exact tie either way.
FinalPct(prob, should_normalize, base) ==
  IF should_normalize THEN RoundHalfEven(prob * 10000, base) ELSE prob

\* GeminiAnalyzer.transform_to_raw_analysis
TransformToRawAnalysis(gemini_result, original_markets, event_title) ==
  IF ~gemini_result.ok THEN NoEntries
  ELSE
    LET ai_markets == gemini_result.markets
        all_market_probs == AllMarketProbs(original_markets)
        should_normalize == ShouldNormalize(event_title, Len(original_markets))
        analyzed_ids == DOMAIN ai_markets
        base == NormalizationBase(ai_markets, all_market_probs, should_normalize)
    IN  [id \in analyzed_ids \cup DOMAIN all_market_probs |->
           IF id \in analyzed_ids
             THEN [ai_calibrated_odds_pct |->
                     FinalPct(ai_markets[id].ai_calibrated_odds, should_normalize, base),
                   ai_confidence |-> ai_markets[id].confidence_score,
                   _analyzed |-> TRUE,
                   _normalized |-> should_normalize]
             ELSE [ai_calibrated_odds_pct |->
                     FinalPct(all_market_probs[id], should_normalize, base),
                   ai_confidence |-> 0,
                   _analyzed |-> FALSE,
                   _normalized |-> should_normalize]]


\* ---------------------------------------------------------- feed: build
\* _extract_markets_from_raw_data for one market.  ai_markets maps market ids
\* to stored calibration entries.  Snapshots hold the crawler's raw records,
\* which carry no adjustedProbability key, so the value comes from ai_markets.
ExtractMarket(market, ai_markets) ==
  LET ai_adj_prob == IF market.id \in DOMAIN ai_markets
                       THEN ai_markets[market.id].ai_calibrated_odds_pct
                       ELSE Absent
      \* float(ai_adj_prob); if val > 1.0: val = val / 100.0
      val == IF ai_adj_prob > 100 THEN ai_adj_prob ELSE ai_adj_prob * 100
  IN  [id |-> market.id,
       probability |-> ExtractProbability(market),
       active |-> market.active,
       outcomePrices |-> market.outcomePrices,
       ai_adjusted_probability |-> IF ai_adj_prob = Absent THEN Absent ELSE val]

ExtractMarkets(markets, ai_markets) ==
  [i \in 1..Len(markets) |-> ExtractMarket(markets[i], ai_markets)]

\* MarketItem built from a market dict of the card (compute_probabilities):
\* probability is computed anew from outcomePrices alone, the adjusted
\* probability is the dict's ai_adjusted_probability divided by 100, and
\* archived, which the dict does not carry, takes its default.
MarketItem(values) ==
  LET prob == IF IsNumber(values.outcomePrices) THEN values.outcomePrices ELSE 0
  IN  [id |-> values.id,
       probability |-> prob,
       adjusted_probability |->
         IF values.ai_adjusted_probability # Absent
           THEN values.ai_adjusted_probability \div 100
           ELSE prob,
       active |-> values.active,
       archived |-> FALSE]

\* CardData.process_markets: the active, unarchived markets in descending
\* order of probability (the raw markets carry no volume, the second key)
ProcessMarkets(markets) ==
  LET Valid(m) == m.active = TRUE /\ m.archived = FALSE
      valid_markets == SelectSeq(markets, Valid)
  IN  StableSortDesc(valid_markets,
                     [i \in 1..Len(valid_markets) |-> valid_markets[i].probability])

\* CardData(**item)
CardData(item) ==
  [id |-> item.id, volume |-> item.volume,
   markets |-> ProcessMarkets([i \in 1..Len(item.markets) |-> MarketItem(item.markets[i])])]

\* _normalize_prob inside get_card_list
NormalizeProb(val) ==
  IF val = Absent THEN 0
  ELSE LET v == IF val > 10000 THEN val \div 100 ELSE val
       IN  Max(0, Min(10000, v))

\* get_volume_score: float(card.get("volume") or 0)
GetVolumeScore(card) == IF card.volume = Absent THEN 0 ELSE card.volume

MarketDiff(m) ==
  LET prob == NormalizeProb(m.probability)
      \* m.get("ai_adjusted_probability") or m.get("adjustedProbability"):
      \* a value of 0.0 is falsy and the second key is never set
      adj_prob == IF m.ai_adjusted_probability = 0 THEN Absent
                  ELSE m.ai_adjusted_probability
      curr_ai == IF adj_prob = Absent THEN prob ELSE NormalizeProb(adj_prob)
  IN  Abs(prob - curr_ai)

\* get_weighted_alpha_score: volume times the two largest differences
GetWeightedAlphaScore(card) ==
  LET vol == GetVolumeScore(card)
      diffs == [i \in 1..Len(card.markets) |-> MarketDiff(card.markets[i])]
      sorted == StableSortDesc(diffs, diffs)
      top_diffs == IF Len(sorted) >= 2 THEN SubSeq(sorted, 1, 2) ELSE sorted
  IN  IF vol = 0 THEN 0 ELSE vol * SumSeq(top_diffs)

\* ------------------------------------------------------------------ state
VARIABLES
  event_cards,     \* table event_cards: card id -> row (with its latest snapshot)
  ai_predictions,  \* table ai_predictions: card id -> stored results, latest first
  feed_pc,         \* position of the running get_card_list call
  tagId, total_count, card_data_list, list_volume, list_alpha,
  final_list, used_ids, ptr_vol, ptr_alpha, turn_volume,
  page, pageSize,
  response,        \* what the last get_card_list call returned
  prev_input, prev_merged, \* candidate list and merged list of the previous call
  events_data,     \* the batch _process_ai_analysis works on
  ev_idx,          \* number of events of the batch the loop has dealt with
  ev_status,       \* per event dealt with: "stored", "failed", "skipped", "aborted"
  ev_prompt,       \* per event: the markets its prompt listed
  ev_result,       \* per event: what analyze_event returned
  pending,         \* predictions added to the session, not committed yet
  ingest_pc,       \* "idle", "loop", "done", "rolled_back" or "raised"
  runner,          \* who runs the batch: the crawler or scripts/run_ai_analysis.py
  norm_in,         \* arguments of a transform_to_raw_analysis call
  norm_out,        \* its return value
  norm_pc,         \* "idle", "ready" or "done"
  api_key,         \* analyze_event: whether GEMINI_API_KEY is configured
  max_retries,     \* its max_retries argument
  attempt,         \* number of forecaster calls it has made
  responses,       \* what the forecaster answered to each call
  ae_return,       \* its return value: "None" or "result_json"
  ae_pc,           \* "idle", "loop" or "returned"
  ex_market,       \* a raw market record handed to the probability extractors
  ex_gemini,       \* what _get_market_probability gave for it
  ex_feed,         \* what the head of _extract_markets_from_raw_data gave
  ex_item,         \* the probability of the MarketItem built from its dict
  ex_pc,           \* "idle", "ready" or "done"
  task_pc,         \* save_batch: per batch task, where it is
  task_batch,      \* per task: the events of its page, in order
  task_step,       \* per task: writes of the main transaction executed so far
  task_idx,        \* per task: events the calibration loop has dealt with
  task_calls,      \* per task: forecaster calls made
  tx_deleted,      \* per task: ai_predictions rows its open transaction deleted
  tx_pending,      \* per task: AIPrediction objects added to its session
  tx_snap,         \* per task: rows its waiting DELETE statement selected
  db_cards,        \* committed event_cards rows: card -> task that wrote it last
  db_snapshots,    \* committed event_snapshots rows: <<task, event>>
  db_links,        \* committed card_tags rows: card -> task that inserted it
  db_predictions,  \* committed ai_predictions rows: [card, by]
  had_result,      \* cards that had a stored result before the run
  observed,        \* rows per card the last feed or detail query loaded
  sem_value,       \* run_batch_crawl: free permits of the semaphore
  sem_waiters,     \* tasks waiting for the semaphore, first come first
  run_pc,          \* per batch task of the run, where it is
  run_left         \* per task: events of its page still to calibrate

feedVars == <<feed_pc, tagId, total_count, card_data_list, list_volume, list_alpha,
              final_list, used_ids, ptr_vol, ptr_alpha, turn_volume, page, pageSize,
              response, prev_input, prev_merged>>
dbVars == <<event_cards, ai_predictions>>
ingestVars == <<events_data, ev_idx, ev_status, ev_prompt, ev_result, pending, ingest_pc,
                runner>>
normVars == <<norm_in, norm_out, norm_pc>>
retryVars == <<api_key, max_retries, attempt, responses, ae_return, ae_pc>>
extractVars == <<ex_market, ex_gemini, ex_feed, ex_item, ex_pc>>
saveVars == <<task_pc, task_batch, task_step, task_idx, task_calls, tx_deleted, tx_pending,
              tx_snap, db_cards, db_snapshots, db_links, db_predictions, had_result,
              observed>>
runVars == <<sem_value, sem_waiters, run_pc, run_left>>
vars == <<dbVars, feedVars, ingestVars, normVars, retryVars, extractVars, saveVars, runVars>>

CardIds == 1..MaxCards
TagIds == {7}
NoResponse ==
  [code |-> 0, total |-> 0, page |-> 0, pageSize |-> 0, list |-> <<>>, objects |-> <<>>]

\* ------------------------------------------------ rows the tables can hold
RawMarket(id, odds, prices, prob) ==
  [id |-> id, calculated_odds |-> odds, outcomePrices |-> prices,
   probability |-> prob, active |-> TRUE, closed |-> FALSE, archived |-> FALSE]

StoredEntry(pct, analyzed, normalized) ==
  [ai_calibrated_odds_pct |-> pct, ai_confidence |-> 0,
   _analyzed |-> analyzed, _normalized |-> normalized]

\* a row of ai_predictions
StoredPrediction(raw_analysis) ==
  [raw_analysis |-> raw_analysis, outcome_prediction |-> 0, confidence_score |-> 0]

\* snapshot markets and stored calibration of a card: none; one calibrated
\* market; one market calibrated to 0; two calibrated markets, one of them
\* stored at 0.5 percent; an archived market and an inactive one
Snapshots ==
  { [markets |-> <<>>, predictions |-> <<>>],
    [markets |-> <<RawMarket(1, Absent, 6000, Absent)>>,
     predictions |-> <<StoredPrediction(1 :> StoredEntry(4000, TRUE, FALSE))>>],
    [markets |-> <<RawMarket(1, Absent, 6000, Absent)>>,
     predictions |-> <<StoredPrediction(1 :> StoredEntry(0, TRUE, FALSE))>>],
    [markets |-> <<RawMarket(1, Absent, 5000, Absent), RawMarket(2, Absent, 3000, 3000)>>,
     predictions |-> <<StoredPrediction(1 :> StoredEntry(9000, TRUE, FALSE)
                                        @@ 2 :> StoredEntry(50, TRUE, FALSE))>>],
    [markets |-> <<[RawMarket(1, Absent, 5000, Absent) EXCEPT !.archived = TRUE],
                   [RawMarket(2, Absent, 3000, Absent) EXCEPT !.active = FALSE]>>,
     predictions |-> <<>>] }

Volumes == {0, 1, 2}

Row(volume, active, closed, archived, sports, tags, snap) ==
  [volume |-> volume, is_active |-> active, is_closed |-> closed,
   is_archived |-> archived, sports |-> sports, tags |-> tags, snap |-> snap]

EmptySnap == [markets |-> <<>>, predictions |-> <<>>]

\* The crawler writes a volume for every card (crawler.py:137-139), so no row
\* has a NULL volume.  Rows shown by the feed vary in volume and calibration;
\* the others are an inactive, a closed, an archived and a sports-tagged card.
RowKinds ==
  {Row(v, TRUE, FALSE, FALSE, FALSE, {}, s) : v \in Volumes \ {0}, s \in Snapshots}
  \cup {Row(0, TRUE, FALSE, FALSE, FALSE, {}, EmptySnap),
        Row(1, TRUE, FALSE, FALSE, FALSE, TagIds, EmptySnap),
        Row(1, FALSE, FALSE, FALSE, FALSE, {}, EmptySnap),
        Row(1, TRUE, TRUE, FALSE, FALSE, TagIds, EmptySnap),
        Row(1, TRUE, FALSE, TRUE, FALSE, {}, EmptySnap),
        Row(1, TRUE, FALSE, FALSE, TRUE, {}, EmptySnap)}

\* ------------------------------------------------------- feed: the queries
\* base_query: active, not closed, not archived, no sports tag, tag filter.
\* The query and scripts/clean_inactive_events.py read and write the columns
\* is_closed and is_archived, so the rows carry them.
InBaseQuery(row, tag) ==
  /\ row.is_active /\ ~row.is_closed /\ ~row.is_archived /\ ~row.sports
  /\ (tag # Absent => tag \in row.tags)

\* count_query: active cards, with the tag when one is asked for
InCountQuery(row, tag) ==
  /\ row.is_active
  /\ (tag # Absent => tag \in row.tags)

CountQuery(tag) == Cardinality({c \in CardIds : InCountQuery(event_cards[c], tag)})

\* the orders in which the candidate query may return its rows: descending
\* by volume, rows of equal volume in any order, at most CANDIDATE_POOL_SIZE
CandidateQuery(tag) ==
  LET hit == {c \in CardIds : InBaseQuery(event_cards[c], tag)}
      ordered == {p \in Perms(hit) : \A i, j \in 1..Cardinality(hit) :
                    i < j => event_cards[p[i]].volume >= event_cards[p[j]].volume}
  IN  {Slice(p, 0, CANDIDATE_POOL_SIZE) : p \in ordered}

\* _build_card_data: the fields the ranking reads.  The card's volume and its
\* snapshot's come from the same crawled event, so a card of volume 0 gets
\* volume None.
BuildCardData(c) ==
  LET row == event_cards[c]
      predictions == ai_predictions[c]
      ai_markets == IF Len(predictions) > 0 THEN predictions[1].raw_analysis
                    ELSE NoEntries
  IN  [id |-> c,
       volume |-> IF row.volume # 0 THEN row.volume ELSE Absent,
       markets |-> ExtractMarkets(row.markets, ai_markets)]

CardRow(kind) ==
  [volume |-> kind.volume, is_active |-> kind.is_active, is_closed |-> kind.is_closed,
   is_archived |-> kind.is_archived, sports |-> kind.sports, tags |-> kind.tags,
   markets |-> kind.snap.markets]

FeedIdle ==
  /\ feed_pc = "idle"
  /\ tagId = Absent /\ total_count = 0
  /\ card_data_list = <<>> /\ list_volume = <<>> /\ list_alpha = <<>>
  /\ final_list = <<>> /\ used_ids = {} /\ ptr_vol = 0 /\ ptr_alpha = 0
  /\ turn_volume = TRUE /\ page = 1 /\ pageSize = 1
  /\ response = NoResponse

IngestIdle ==
  /\ events_data = <<>> /\ ev_idx = 0 /\ ev_status = <<>> /\ ev_prompt = <<>>
  /\ ev_result = <<>> /\ pending = <<>> /\ ingest_pc = "idle"
  /\ runner = "crawler"

NoCall == [gemini_result |-> NoResult, original_markets |-> <<>>, event_title |-> {}]

NormIdle == norm_in = NoCall /\ norm_out = NoEntries /\ norm_pc = "idle"

RetryIdle ==
  /\ api_key = TRUE /\ max_retries = 0 /\ attempt = 0 /\ responses = <<>>
  /\ ae_return = "None" /\ ae_pc = "idle"

ExtractIdle ==
  /\ ex_market = RawMarket(1, Absent, Absent, Absent)
  /\ ex_gemini = 0 /\ ex_feed = 0 /\ ex_item = 0 /\ ex_pc = "idle"

\* ------------------------------------------------ the crawl run, when idle
MaxSaveTasks == 2
MaxSaveEvents == 2
MaxRunTasks == 6

SaveTasks == 1..MaxSaveTasks
SaveEvents == 1..MaxSaveEvents
RunTasks == 1..MaxRunTasks

SaveIdle ==
  /\ task_pc = [t \in SaveTasks |-> "idle"]
  /\ task_batch = [t \in SaveTasks |-> <<>>]
  /\ task_step = [t \in SaveTasks |-> 0]
  /\ task_idx = [t \in SaveTasks |-> 0]
  /\ task_calls = [t \in SaveTasks |-> 0]
  /\ tx_deleted = [t \in SaveTasks |-> {}]
  /\ tx_pending = [t \in SaveTasks |-> {}]
  /\ tx_snap = [t \in SaveTasks |-> {}]
  /\ db_cards = [e \in SaveEvents |-> 0]
  /\ db_snapshots = {}
  /\ db_links = [e \in SaveEvents |-> 0]
  /\ db_predictions = {}
  /\ had_result = {}
  /\ observed = [e \in SaveEvents |-> 0]

RunIdle ==
  /\ sem_value = 0 /\ sem_waiters = <<>>
  /\ run_pc = [t \in RunTasks |-> "idle"]
  /\ run_left = [t \in RunTasks |-> 0]

Init ==
  /\ \E kinds \in [CardIds -> RowKinds] :
       /\ event_cards = [c \in CardIds |-> CardRow(kinds[c])]
       /\ ai_predictions = [c \in CardIds |-> kinds[c].snap.predictions]
  /\ FeedIdle
  /\ prev_input = <<>> /\ prev_merged = <<>>
  /\ IngestIdle
  /\ NormIdle
  /\ RetryIdle
  /\ ExtractIdle
  /\ SaveIdle /\ RunIdle

\* ------------------------------------------------- get_card_list, by steps
\* a request arrives; the count query runs (cards.py:235-259).  page and
\* pageSize are first read by the pagination step, which draws them.
Request ==
  /\ feed_pc \in {"idle", "done"}
  /\ \E t \in TagIds \cup {Absent} :
       /\ tagId' = t
       /\ total_count' = CountQuery(t)
  /\ page' = 1 /\ pageSize' = 1
  /\ prev_input' = IF feed_pc = "done" THEN card_data_list ELSE prev_input
  /\ prev_merged' = IF feed_pc = "done" THEN final_list ELSE prev_merged
  /\ card_data_list' = <<>> /\ list_volume' = <<>> /\ list_alpha' = <<>>
  /\ final_list' = <<>> /\ used_ids' = {} /\ ptr_vol' = 0 /\ ptr_alpha' = 0
  /\ turn_volume' = TRUE
  /\ response' = NoResponse
  /\ feed_pc' = "query"
  /\ UNCHANGED <<saveVars, runVars, dbVars, ingestVars, normVars, retryVars, extractVars>>

\* the candidate query and the card dicts built from its rows (cards.py:261-324)
Fetch ==
  /\ feed_pc = "query"
  /\ \E cards \in CandidateQuery(tagId) :
       card_data_list' = [i \in 1..Len(cards) |-> BuildCardData(cards[i])]
  /\ feed_pc' = "sort"
  /\ UNCHANGED <<saveVars, runVars, ingestVars, normVars, retryVars, extractVars>>
  /\ UNCHANGED <<dbVars, tagId, total_count, list_volume, list_alpha, final_list,
                 used_ids, ptr_vol, ptr_alpha, turn_volume, page, pageSize,
                 response, prev_input, prev_merged>>

VolumeKeys(cards) == [i \in 1..Len(cards) |-> GetVolumeScore(cards[i])]
AlphaKeys(cards) == [i \in 1..Len(cards) |-> GetWeightedAlphaScore(cards[i])]

\* the two ranked lists and the start of the merge (cards.py:369-381)
Sort ==
  /\ feed_pc = "sort"
  /\ list_volume' \in SortOutcomes(card_data_list, VolumeKeys(card_data_list))
  /\ list_alpha' \in SortOutcomes(card_data_list, AlphaKeys(card_data_list))
  /\ final_list' = <<>> /\ used_ids' = {}
  /\ ptr_vol' = 0 /\ ptr_alpha' = 0 /\ turn_volume' = TRUE
  /\ feed_pc' = "merge"
  /\ UNCHANGED <<saveVars, runVars, ingestVars, normVars, retryVars, extractVars>>
  /\ UNCHANGED <<dbVars, tagId, total_count, card_data_list, page, pageSize,
                 response, prev_input, prev_merged>>

\* the next card of the list, used or not (no duplicate protection)
NextUnusedNoDedup(list, ptr, used) == IF ptr + 1 <= Len(list) THEN ptr + 1 ELSE 0

\* the last unused card of the list instead of the first one
NextUnusedLast(list, ptr, used) ==
  LET free == {i \in (ptr + 1)..Len(list) : list[i].id \notin used}
  IN  IF free = {} THEN 0 ELSE CHOOSE i \in free : \A j \in free : i >= j

\* the index (from 1) of the first card of list at or after pointer ptr (from 0)
\* whose id is not in used, or 0 when there is none
NextUnused(list, ptr, used) ==
  LET free == {i \in (ptr + 1)..Len(list) : list[i].id \notin used}
  IN  IF free = {} THEN 0 ELSE CHOOSE i \in free : \A j \in free : i <= j

\* one pass of the outer while loop (cards.py:383-411)
MergeStep ==
  /\ feed_pc = "merge"
  /\ Len(final_list) < Len(card_data_list)
  /\ IF turn_volume
       THEN LET i == NextUnused(list_volume, ptr_vol, used_ids)
            IN  /\ IF i # 0
                     THEN /\ final_list' = Append(final_list, list_volume[i])
                          /\ used_ids' = used_ids \cup {list_volume[i].id}
                          /\ ptr_vol' = i
                          /\ turn_volume' = FALSE
                     ELSE /\ ptr_vol' = Max(ptr_vol, Len(list_volume))
                          /\ turn_volume' = FALSE
                          /\ UNCHANGED <<final_list, used_ids>>
                /\ UNCHANGED ptr_alpha
       ELSE LET i == NextUnused(list_alpha, ptr_alpha, used_ids)
            IN  /\ IF i # 0
                     THEN /\ final_list' = Append(final_list, list_alpha[i])
                          /\ used_ids' = used_ids \cup {list_alpha[i].id}
                          /\ ptr_alpha' = i
                          /\ turn_volume' = TRUE
                     ELSE /\ ptr_alpha' = Max(ptr_alpha, Len(list_alpha))
                          /\ turn_volume' = TRUE
                          /\ UNCHANGED <<final_list, used_ids>>
                /\ UNCHANGED ptr_vol
  /\ UNCHANGED <<saveVars, runVars, ingestVars, normVars, retryVars, extractVars>>
  /\ UNCHANGED <<dbVars, feed_pc, tagId, total_count, card_data_list, list_volume,
                 list_alpha, page, pageSize, response, prev_input, prev_merged>>

\* the debug print of the page formats each card's volume with :.0f, which
\* raises on None (cards.py:421-424); the handler turns that into a 500
DebugPrintRaises(offset, ps) ==
  LET debug_slice == Slice(final_list, offset, offset + Min(10, ps))
  IN  \E i \in 1..Len(debug_slice) : debug_slice[i].volume = Absent

ErrorResponse ==
  [code |-> 500, total |-> 0, page |-> 0, pageSize |-> 0, list |-> <<>>, objects |-> <<>>]

\* what get_card_list returns for page pg of size ps once the merge is done
PageResponse(pg, ps) ==
  LET offset == (pg - 1) * ps
  IN  IF DebugPrintRaises(offset, ps)
        THEN ErrorResponse
        ELSE LET card_data_page == Slice(final_list, offset, offset + ps)
             IN  [code |-> 200, total |-> total_count, page |-> pg, pageSize |-> ps,
                  list |-> card_data_page,
                  objects |-> [i \in 1..Len(card_data_page) |-> CardData(card_data_page[i])]]

\* the loop has ended: pagination and the response (cards.py:413-451)
Paginate ==
  /\ feed_pc = "merge"
  /\ ~(Len(final_list) < Len(card_data_list))
  /\ \E pg \in 1..MaxPage, ps \in 1..MaxPageSize :
       /\ page' = pg /\ pageSize' = ps
       /\ response' = PageResponse(pg, ps)
  /\ feed_pc' = "done"
  /\ UNCHANGED <<saveVars, runVars, ingestVars, normVars, retryVars, extractVars>>
  /\ UNCHANGED <<dbVars, tagId, total_count, card_data_list, list_volume, list_alpha,
                 final_list, used_ids, ptr_vol, ptr_alpha, turn_volume,
                 prev_input, prev_merged>>

Next == Request \/ Fetch \/ Sort \/ MergeStep \/ Paginate

Spec == Init /\ [][Next]_vars

\* ------------------------------------------- ingestion: _process_ai_analysis
\* what analyze_event can return for a prompt: None after the retries, a
\* result with one entry per listed market, or a malformed result
OddsValues == {0 - 2000, 0, 3000, 5000, 12000}
IngestOdds == {2000, 5000}
Confidences == {5}

\* a parsed response of another shape than the prompt asks for: its "markets"
\* is a JSON array, not a mapping (a per-market entry whose confidence_score
\* or ai_calibrated_odds is null or a string fails the same way)
MalformedResult == [ok |-> TRUE, markets |-> NoEntries, malformed |-> TRUE]

ForecasterOutcomes(prompt_markets, odds) ==
  LET ids == {prompt_markets[i].id : i \in 1..Len(prompt_markets)}
  IN  {NoResult, MalformedResult} \cup
      {[ok |-> TRUE, markets |-> f] :
         f \in [ids -> [ai_calibrated_odds : odds, confidence_score : Confidences]]}

\* the entry of the highest confidence_score above 0, the first one among
\* equals (crawler.py:276-285); 0 when there is none
PrimaryId(markets_data) ==
  LET best == {id \in DOMAIN markets_data :
                 /\ markets_data[id].confidence_score > 0
                 /\ \A o \in DOMAIN markets_data :
                      markets_data[o].confidence_score <= markets_data[id].confidence_score}
  IN  IF best = {} THEN 0 ELSE CHOOSE id \in best : \A o \in best : id <= o

\* raw_analysis[m_id]["original_odds"] for the markets of the event that have
\* an entry (crawler.py:290-303)
SupplementOriginalData(raw_analysis, markets) ==
  LET priced(id) == {i \in 1..Len(markets) :
                       markets[i].id = id /\ IsNumber(markets[i].outcomePrices)}
      odds(id) == IF priced(id) = {} THEN Absent
                  ELSE markets[CHOOSE i \in priced(id) : \A j \in priced(id) : j <= i]
                         .outcomePrices
  IN  [id \in DOMAIN raw_analysis |->
         ("original_odds" :> odds(id)) @@ raw_analysis[id]]

\* the AIPrediction row built for an event from the forecaster's result.  The
\* transform is called with the result alone (crawler.py:288).
NewPrediction(ai_result, event) ==
  LET markets_data == ai_result.markets
      primary == PrimaryId(markets_data)
      primary_conf == IF primary = 0 THEN 0 ELSE markets_data[primary].confidence_score
      raw_analysis == TransformToRawAnalysis(ai_result, <<>>, {})
  IN  [raw_analysis |-> SupplementOriginalData(raw_analysis, event.markets),
       outcome_prediction |->
         IF primary = 0 THEN 0
         ELSE 10 * RoundHalfEven(markets_data[primary].ai_calibrated_odds, 10),
       confidence_score |-> Min(primary_conf * 1000, 9999)]

\* Reading a malformed result raises (crawler.py:272-303).  In the crawler
\* the try around the whole loop catches it and rolls the session back
\* (crawler.py:322-324); process_batch has no handler, the exception leaves it
\* and the session closes without a commit.
BatchAborted == IF runner = "crawler" THEN "rolled_back" ELSE "raised"

\* one pass of the loop over the batch (crawler.py:241-318)
ProcessEvent ==
  /\ ingest_pc = "loop"
  /\ ev_idx < Len(events_data)
  /\ LET event == events_data[ev_idx + 1]
         prompt == ConstructPrompt(event)
     IN  IF event.markets = <<>>
           THEN /\ ev_status' = Append(ev_status, "skipped")
                /\ ev_prompt' = Append(ev_prompt, <<>>)
                /\ ev_result' = Append(ev_result, NoResult)
                /\ UNCHANGED <<pending, ingest_pc>>
           ELSE \E ai_result \in ForecasterOutcomes(prompt, IngestOdds) :
                  /\ ev_prompt' = Append(ev_prompt, prompt)
                  /\ ev_result' = Append(ev_result, ai_result)
                  /\ IF ~ai_result.ok
                       THEN /\ ev_status' = Append(ev_status, "failed")
                            /\ UNCHANGED <<pending, ingest_pc>>
                       ELSE IF ai_result = MalformedResult
                       THEN /\ ev_status' = Append(ev_status, "aborted")
                            /\ pending' = <<>>
                            /\ ingest_pc' = BatchAborted
                       ELSE /\ ev_status' = Append(ev_status, "stored")
                            /\ pending' = Append(pending,
                                 [card_id |-> event.id,
                                  prediction |-> NewPrediction(ai_result, event)])
                            /\ UNCHANGED ingest_pc
  /\ ev_idx' = ev_idx + 1
  /\ UNCHANGED <<saveVars, runVars, dbVars, feedVars, normVars, retryVars, extractVars, events_data, runner>>

\* the commit of a runner that only adds: the new rows come first in the
\* card's predictions (ordered by created_at, latest first), the old ones stay
AfterCommitAppending(c) ==
  LET IsMine(p) == p.card_id = c
      added == SelectSeq(pending, IsMine)
  IN  [k \in 1..Len(added) |-> added[Len(added) + 1 - k].prediction] \o ai_predictions[c]

\* the rows of a card once the session's deletes and adds are committed.  The
\* crawler deletes the card's rows before each add (crawler.py:305-317), so
\* the delete of a later event of the same card removes the earlier add;
\* process_batch of scripts/run_ai_analysis.py only adds (lines 124-133).
AfterCommit(c) ==
  LET mine == {i \in 1..Len(pending) : pending[i].card_id = c}
  IN  IF runner = "process_batch" THEN AfterCommitAppending(c)
      ELSE IF mine = {} THEN ai_predictions[c]
      ELSE <<pending[CHOOSE i \in mine : \A j \in mine : j <= i].prediction>>

\* the commit after the loop (crawler.py:320)
Commit ==
  /\ ingest_pc = "loop"
  /\ ev_idx = Len(events_data)
  /\ ai_predictions' = [c \in CardIds |-> AfterCommit(c)]
  /\ pending' = <<>>
  /\ ingest_pc' = "done"
  /\ UNCHANGED <<saveVars, runVars, event_cards, feedVars, normVars, retryVars, extractVars, events_data,
                 ev_idx, ev_status, ev_prompt, ev_result, runner>>

\* the batches: one event of up to MaxEventMarkets markets, each below the
\* threshold, above it, or above it and closed
MaxEventMarkets == 6

LowMarket(id) == RawMarket(id, Absent, 300, Absent)
HighMarket(id) == RawMarket(id, Absent, 3000, Absent)
ClosedMarket(id) == [RawMarket(id, Absent, 3000, Absent) EXCEPT !.closed = TRUE]

EventMarkets ==
  UNION {{[i \in 1..n |-> IF k[i] = 1 THEN LowMarket(i)
                          ELSE IF k[i] = 2 THEN HighMarket(i) ELSE ClosedMarket(i)] :
            k \in [1..n -> 1..3]} : n \in 0..MaxEventMarkets}

\* no marker ("" or None); "Who will win the election?"; "Will X happen by
\* December 31?"; a title with a marker of each list
Titles == {{}, {"who will win"}, {" by "}, {" by ", "winner"}}

Runners == {"crawler", "process_batch"}

OldPrediction == StoredPrediction(1 :> StoredEntry(4000, TRUE, FALSE))

\* the batches: one event of card 1, or an event of card 2 with one market
\* followed by an event of card 1 of up to MaxPairMarkets markets
MaxPairMarkets == 2

FirstOfPair == [id |-> 2, title |-> {}, markets |-> <<HighMarket(1)>>]

Batches ==
  {<<[id |-> 1, title |-> t, markets |-> ms]>> : ms \in EventMarkets, t \in Titles}
  \cup {<<FirstOfPair, [id |-> 1, title |-> t, markets |-> ms]>> :
          ms \in {m \in EventMarkets : Len(m) <= MaxPairMarkets}, t \in Titles}

\* the markets of the card's event in the batch, none for a card without one
BatchMarkets(batch, c) ==
  LET mine == {i \in 1..Len(batch) : batch[i].id = c}
  IN  IF mine = {} THEN <<>> ELSE batch[CHOOSE i \in mine : TRUE].markets

InitIngest ==
  /\ \E batch \in Batches :
       /\ events_data = batch
       /\ event_cards = [c \in CardIds |->
            [volume |-> 1, is_active |-> (\E i \in 1..Len(batch) : batch[i].id = c),
             is_closed |-> FALSE, is_archived |-> FALSE, sports |-> FALSE, tags |-> {},
             markets |-> BatchMarkets(batch, c)]]
  /\ \E old \in {<<>>, <<OldPrediction>>} :
       ai_predictions = [c \in CardIds |-> IF c = 1 THEN old ELSE <<>>]
  /\ ev_idx = 0 /\ ev_status = <<>> /\ ev_prompt = <<>> /\ ev_result = <<>>
  /\ pending = <<>> /\ ingest_pc = "loop"
  /\ runner \in Runners
  /\ FeedIdle
  /\ prev_input = <<>> /\ prev_merged = <<>>
  /\ NormIdle
  /\ RetryIdle
  /\ ExtractIdle
  /\ SaveIdle /\ RunIdle

NextIngest == ProcessEvent \/ Commit

SpecIngest == InitIngest /\ [][NextIngest]_vars

\* ------------------------------------ the Normalizer on its own arguments
MaxNormMarkets == 3
BaselineValues == {0, 300, 3000, 7000}

NormMarkets ==
  UNION {{[i \in 1..n |-> RawMarket(i, Absent, b[i], Absent)] :
            b \in [1..n -> BaselineValues]} : n \in 0..MaxNormMarkets}

NormResults(markets) ==
  {NoResult} \cup
  UNION {{[ok |-> TRUE, markets |-> f] :
            f \in [ids -> [ai_calibrated_odds : OddsValues, confidence_score : Confidences]]} :
           ids \in SUBSET {markets[i].id : i \in 1..Len(markets)}}

InitNorm ==
  /\ \E ms \in NormMarkets, t \in Titles :
       \E r \in NormResults(ms) :
         norm_in = [gemini_result |-> r, original_markets |-> ms, event_title |-> t]
  /\ norm_out = NoEntries
  /\ norm_pc = "ready"
  /\ event_cards = [c \in CardIds |-> CardRow(Row(0, FALSE, FALSE, FALSE, FALSE, {}, EmptySnap))]
  /\ ai_predictions = [c \in CardIds |-> <<>>]
  /\ FeedIdle
  /\ prev_input = <<>> /\ prev_merged = <<>>
  /\ IngestIdle
  /\ RetryIdle
  /\ ExtractIdle
  /\ SaveIdle /\ RunIdle

\* a call of transform_to_raw_analysis with both optional arguments given
ApplyTransform ==
  /\ norm_pc = "ready"
  /\ norm_out' = TransformToRawAnalysis(norm_in.gemini_result, norm_in.original_markets,
                                        norm_in.event_title)
  /\ norm_pc' = "done"
  /\ UNCHANGED <<saveVars, runVars, dbVars, feedVars, ingestVars, retryVars, extractVars, norm_in>>

NextNorm == ApplyTransform

SpecNorm == InitNorm /\ [][NextNorm]_vars

\* ------------------------------------------------ analyze_event, by calls
MaxRetries == 3

\* What one forecaster call can come to: the call raises; reading
\* response.text raises (a blocked response); the text is no JSON even after
\* _fix_json_string; the text is JSON once fixed; the text is a JSON object;
\* the text is the JSON value null.
Responses == {"api_error", "no_text", "unparsable", "fixable", "object", "null"}

\* json.loads of the text, or of the fixed text, succeeds
Parses(r) == r \in {"fixable", "object", "null"}

\* what json.loads gave: Python's None for the JSON value null
ResultJson(r) == IF r = "null" THEN "None" ELSE "result_json"

\* a loop that runs once more than max_retries
AttemptsLeftOneMore(done, limit) == done <= limit

\* for attempt in range(1, max_retries + 1): another pass is due
AttemptsLeft(done, limit) == done < limit

InitRetry ==
  /\ api_key \in BOOLEAN
  /\ max_retries \in 1..MaxRetries
  /\ attempt = 0 /\ responses = <<>> /\ ae_return = "None"
  /\ ae_pc = "start"
  /\ event_cards = [c \in CardIds |-> CardRow(Row(0, FALSE, FALSE, FALSE, FALSE, {}, EmptySnap))]
  /\ ai_predictions = [c \in CardIds |-> <<>>]
  /\ FeedIdle
  /\ prev_input = <<>> /\ prev_merged = <<>>
  /\ IngestIdle
  /\ NormIdle
  /\ ExtractIdle
  /\ SaveIdle /\ RunIdle

\* the head of analyze_event: without an API key it returns None at once
CheckApiKey ==
  /\ ae_pc = "start"
  /\ IF api_key THEN ae_pc' = "loop" /\ UNCHANGED ae_return
                ELSE ae_pc' = "returned" /\ ae_return' = "None"
  /\ UNCHANGED <<saveVars, runVars, dbVars, feedVars, ingestVars, normVars, extractVars, api_key, max_retries,
                 attempt, responses>>

\* one pass of the retry loop: a call, then a return or another pass
Attempt ==
  /\ ae_pc = "loop"
  /\ AttemptsLeft(attempt, max_retries)
  /\ \E r \in Responses :
       /\ responses' = Append(responses, r)
       /\ IF Parses(r)
            THEN ae_return' = ResultJson(r) /\ ae_pc' = "returned"
            ELSE UNCHANGED <<ae_return, ae_pc>>
  /\ attempt' = attempt + 1
  /\ UNCHANGED <<saveVars, runVars, dbVars, feedVars, ingestVars, normVars, extractVars, api_key, max_retries>>

\* the loop is over without a return: return None
GiveUp ==
  /\ ae_pc = "loop"
  /\ ~AttemptsLeft(attempt, max_retries)
  /\ ae_return' = "None"
  /\ ae_pc' = "returned"
  /\ UNCHANGED <<saveVars, runVars, dbVars, feedVars, ingestVars, normVars, extractVars, api_key, max_retries,
                 attempt, responses>>

NextRetry == CheckApiKey \/ Attempt \/ GiveUp

\* an awaited forecaster call returns or raises, and the event loop then
\* resumes analyze_event
SpecRetry == InitRetry /\ [][NextRetry]_vars /\ WF_vars(NextRetry)

\* ------------------------------- the probability extractors on a raw market
\* 0, 0.3 and 1.5
ExtractNumbers == {0, 3000, 15000}

RawMarkets ==
  {RawMarket(1, odds, prices, prob) :
     odds \in ExtractNumbers \cup {Absent, Null, NonNumeric},
     prices \in ExtractNumbers \cup {Absent, Null, EmptyList, Malformed},
     prob \in ExtractNumbers \cup {Absent, Null, NonNumeric}}

InitExtract ==
  /\ ex_market \in RawMarkets
  /\ ex_gemini = 0 /\ ex_feed = 0 /\ ex_item = 0 /\ ex_pc = "ready"
  /\ event_cards = [c \in CardIds |-> CardRow(Row(0, FALSE, FALSE, FALSE, FALSE, {}, EmptySnap))]
  /\ ai_predictions = [c \in CardIds |-> <<>>]
  /\ FeedIdle
  /\ prev_input = <<>> /\ prev_merged = <<>>
  /\ IngestIdle
  /\ NormIdle
  /\ RetryIdle
  /\ SaveIdle /\ RunIdle

\* the extractors applied to the record; the MarketItem is built from the
\* dict _extract_markets_from_raw_data returns, when it returns
ApplyExtractors ==
  /\ ex_pc = "ready"
  /\ ex_gemini' = GetMarketProbability(ex_market)
  /\ ex_feed' = ExtractProbability(ex_market)
  /\ ex_item' = IF ExtractProbability(ex_market) = Raises THEN Raises
                ELSE MarketItem(ExtractMarket(ex_market, NoEntries)).probability
  /\ ex_pc' = "done"
  /\ UNCHANGED <<saveVars, runVars, dbVars, feedVars, ingestVars, normVars, retryVars, ex_market>>

NextExtract == ApplyExtractors

SpecExtract == InitExtract /\ [][NextExtract]_vars

\* ================================================================ claims
Ids(cards) == [i \in 1..Len(cards) |-> cards[i].id]

FirstUnused(list, used) ==
  LET free == {i \in 1..Len(list) : list[i].id \notin used}
  IN  IF free = {} THEN 0 ELSE CHOOSE i \in free : \A j \in free : i <= j

\* the zipper rule: draws alternate between the two lists; a draw takes the
\* first card of its list that is not in the output yet; a draw on a list
\* with no such card passes to the other list
RECURSIVE Zipper(_, _, _, _)
Zipper(listA, listB, out, turnA) ==
  LET used == Range(Ids(out))
      a == FirstUnused(listA, used)
      b == FirstUnused(listB, used)
  IN  IF a = 0 /\ b = 0 THEN out
      ELSE IF turnA
        THEN IF a # 0 THEN Zipper(listA, listB, Append(out, listA[a]), FALSE)
             ELSE Zipper(listA, listB, out, FALSE)
        ELSE IF b # 0 THEN Zipper(listA, listB, Append(out, listB[b]), TRUE)
             ELSE Zipper(listA, listB, out, TRUE)

MergeEnded == feed_pc = "done"

\* C1: when the zipper merge has ended, the merged sequence is as long as the
\* candidate list and holds every candidate's identifier exactly once.
C1_MergedHoldsEachEventOnce ==
  MergeEnded =>
    /\ Len(final_list) = Len(card_data_list)
    /\ \A i \in 1..Len(card_data_list) :
         Cardinality({j \in 1..Len(final_list) :
                        final_list[j].id = card_data_list[i].id}) = 1

\* three candidates that the two rankings order differently
C1_Witness ==
  /\ MergeEnded
  /\ Len(card_data_list) = 3
  /\ Ids(list_volume) # Ids(list_alpha)

\* C2: the merged sequence is the one the zipper rule gives for the volume
\* list and the divergence list, starting with the volume list; for
\* ListA = [E1,E2,E3] and ListB = [E3,E1,E2] it is [E1,E3,E2].
C2_MergedIsZipper ==
  MergeEnded =>
    /\ final_list = Zipper(list_volume, list_alpha, <<>>, TRUE)
    /\ (Ids(list_volume) = <<1, 2, 3>> /\ Ids(list_alpha) = <<3, 1, 2>>
          => Ids(final_list) = <<1, 3, 2>>)

C2_Witness ==
  /\ MergeEnded
  /\ Ids(list_volume) = <<1, 2, 3>>
  /\ Ids(list_alpha) = <<3, 1, 2>>

C4_TotalIsMergedLength ==
  (feed_pc = "done" /\ response.code = 200) => response.total = Len(final_list)

\* C5: every request, whatever its page and pageSize, is answered with code
\* 200 and the cards final_list[offset+1 .. offset+pageSize] that exist,
\* offset = (page-1)*pageSize, so at most pageSize of them; a page that starts
\* beyond the merged sequence is answered with an empty list.
C5_PageIsSlice ==
  feed_pc = "done" =>
    LET offset == (page - 1) * pageSize
        n == Max(0, Min(pageSize, Len(final_list) - offset))
    IN  /\ response.code = 200
        /\ Len(response.list) = n
        /\ Len(response.list) <= pageSize
        /\ \A k \in 1..n : response.list[k] = final_list[offset + k]

\* ---------------------------------------------------- ingestion claims
StoredRawAnalysis(c) == ai_predictions[c][1].raw_analysis

PctSum(raw_analysis) ==
  SumOver([id \in DOMAIN raw_analysis |-> raw_analysis[id].ai_calibrated_odds_pct],
          DOMAIN raw_analysis)

\* the sum of n values, each rounded to a hundredth of a percent, is within
\* n/2 hundredths of 100 percent
WithinRounding(raw_analysis) ==
  2 * Abs(PctSum(raw_analysis) - 10000) <= Cardinality(DOMAIN raw_analysis)

\* C6: after an ingestion run, the result stored for an event of two or more
\* markets whose title holds no cumulative marker is flagged normalized and
\* its per-market values sum to 100 percent.
C6_StoredIsNormalized ==
  ingest_pc = "done" =>
    \A i \in 1..Len(events_data) :
      LET event == events_data[i]
      IN  (/\ ev_status[i] = "stored"
           /\ DOMAIN ev_result[i].markets # {}
           /\ Len(event.markets) >= 2
           /\ event.title \cap CumulativeKeywords = {})
          => /\ Len(ai_predictions[event.id]) = 1
             /\ \A id \in DOMAIN StoredRawAnalysis(event.id) :
                  StoredRawAnalysis(event.id)[id]._normalized
             /\ WithinRounding(StoredRawAnalysis(event.id))

\* C9: no prompt lists more than MAX_MARKETS = 5 markets.
C9_PromptAtMostMax ==
  \A i \in 1..Len(ev_prompt) : Len(ev_prompt[i]) <= 5

Eligible(m) == m.active /\ ~m.closed /\ ~m.archived

ReachThreshold(event) ==
  {i \in 1..Len(event.markets) :
     GetMarketProbability(event.markets[i]) >= MIN_PROBABILITY_THRESHOLD}

NormCallDone == norm_pc = "done" /\ norm_in.gemini_result.ok

ClassifierSays ==
  ShouldNormalize(norm_in.event_title, Len(norm_in.original_markets))

Analyzed == DOMAIN norm_in.gemini_result.markets

Baselines == AllMarketProbs(norm_in.original_markets)

\* S: calibrated mass of the analyzed markets plus baseline mass of the others
TotalMass ==
  SumOver(OddsOf(norm_in.gemini_result.markets), Analyzed)
  + SumOver(Baselines, DOMAIN Baselines \ Analyzed)

\* C7 as claimed: with the classifier true and S > 0 the final values sum to
\* 1.0 within 1e-6, which for values in hundredths of a percent is 100.00.
C7_SumIsOne ==
  (NormCallDone /\ ClassifierSays /\ TotalMass > 0) => PctSum(norm_out) = 10000

\* C7 as amended: with the classifier true and S > 0 the final values sum to
\* 100 percent within 0.005 percentage points per market.
C7_SumWithinRounding ==
  (NormCallDone /\ ClassifierSays /\ TotalMass > 0) => WithinRounding(norm_out)

\* three markets rescaled from a mass other than 1 whose rounded values miss
\* 100.00 by a hundredth
C7_Witness ==
  /\ NormCallDone /\ ClassifierSays
  /\ TotalMass > 0 /\ TotalMass # 10000
  /\ Cardinality(DOMAIN norm_out) = 3
  /\ PctSum(norm_out) = 9999

\* C8: with the classifier false an analyzed market's final value is its
\* calibrated value clamped to [0,1], an unanalyzed market's is its baseline,
\* and every final value lies in [0,1].
C8_UnscaledAndClamped ==
  (NormCallDone /\ ~ClassifierSays) =>
    \A id \in DOMAIN norm_out :
      /\ id \in Analyzed =>
           norm_out[id].ai_calibrated_odds_pct =
             Max(0, Min(10000, norm_in.gemini_result.markets[id].ai_calibrated_odds))
      /\ id \notin Analyzed => norm_out[id].ai_calibrated_odds_pct = Baselines[id]
      /\ norm_out[id].ai_calibrated_odds_pct \in 0..10000

\* ------------------------------------------------ second group of claims
\* C11: every market listed in the prompt of an event is active, not closed
\* and not archived.
C11_PromptMarketsEligible ==
  \A i \in 1..Len(ev_prompt) :
    \A k \in 1..Len(ev_prompt[i]) :
      \A j \in 1..Len(events_data[i].markets) :
        events_data[i].markets[j].id = ev_prompt[i][k].id
          => Eligible(events_data[i].markets[j])

MarketIds(event) == {event.markets[k].id : k \in 1..Len(event.markets)}

\* C12: the result stored for an event by a completed run has exactly one
\* entry per market of the event and none for another identifier; the entry
\* of a market the forecaster answered for is flagged analyzed, the entry of
\* any other market is flagged not analyzed and carries its baseline.
C12_OneEntryPerMarket ==
  ingest_pc = "done" =>
    \A i \in 1..Len(events_data) :
      ev_status[i] = "stored" =>
        LET event == events_data[i]
            stored == StoredRawAnalysis(event.id)
            answered == DOMAIN ev_result[i].markets
            baseline == AllMarketProbs(event.markets)
        IN  /\ Len(ai_predictions[event.id]) = 1
            /\ DOMAIN stored = MarketIds(event)
            /\ \A id \in answered : stored[id]._analyzed
            /\ \A id \in MarketIds(event) \ answered :
                 /\ ~stored[id]._analyzed
                 /\ stored[id].ai_calibrated_odds_pct = baseline[id]

\* C13: the flag the Normalizer's entries carry is the classifier's decision
\* on (title, market count): false when the count is at most 1 whatever the
\* title; else false when the title holds a cumulative marker, with or
\* without a competitive one; else true.  "Who will win the election?" with
\* 3 markets gives true, "Will X happen by December 31?" with 1 market false.
C13_FirstMatchWins ==
  NormCallDone =>
    LET title == norm_in.event_title
        count == Len(norm_in.original_markets)
        decision == IF count <= 1 THEN FALSE
                    ELSE IF title \cap CumulativeKeywords # {} THEN FALSE
                    ELSE TRUE
    IN  /\ \A id \in DOMAIN norm_out : norm_out[id]._normalized = decision
        /\ (title = {"who will win"} /\ count = 3) => decision
        /\ (title = {" by "} /\ count = 1) => ~decision

\* a call for two or more markets under a title that holds a cumulative and
\* a competitive marker: its entries are flagged not normalized
C13_Witness ==
  /\ NormCallDone
  /\ Len(norm_in.original_markets) >= 2
  /\ norm_in.event_title \cap CumulativeKeywords # {}
  /\ norm_in.event_title \cap CompetitiveKeywords # {}
  /\ DOMAIN norm_out # {}
  /\ \A id \in DOMAIN norm_out : ~norm_out[id]._normalized

\* the sum of the two largest values of a sequence, of its only value when
\* it has one, 0 when it has none
TopTwoSum(diffs) ==
  IF Len(diffs) = 0 THEN 0
  ELSE IF Len(diffs) = 1 THEN diffs[1]
  ELSE CHOOSE best \in {diffs[i] + diffs[j] : i, j \in 1..Len(diffs)} :
         /\ \E i, j \in 1..Len(diffs) : i # j /\ best = diffs[i] + diffs[j]
         /\ \A i, j \in 1..Len(diffs) : i # j => diffs[i] + diffs[j] <= best

\* the divergence score of card c as specified: a market's final probability
\* is its stored calibration result (hundredths of a percent are basis
\* points of a probability), 0 included, or its baseline when it has none
SpecifiedDivergence(c) ==
  LET row == event_cards[c]
      stored == IF Len(ai_predictions[c]) > 0 THEN ai_predictions[c][1].raw_analysis
                ELSE NoEntries
      diffs == [k \in 1..Len(row.markets) |->
                  LET baseline == ExtractProbability(row.markets[k])
                      final == IF row.markets[k].id \in DOMAIN stored
                                 THEN stored[row.markets[k].id].ai_calibrated_odds_pct
                                 ELSE baseline
                  IN  Abs(final - baseline)]
  IN  row.volume * TopTwoSum(diffs)

\* C14: the divergence score by which every candidate was ranked is its
\* volume times the sum of its two largest |final - baseline|; 0 for a
\* candidate of zero volume or without markets.
C14_ScoreIsTopTwoDivergence ==
  feed_pc \in {"merge", "done"} =>
    \A i \in 1..Len(card_data_list) :
      GetWeightedAlphaScore(card_data_list[i]) = SpecifiedDivergence(card_data_list[i].id)

Returned == ae_pc = "returned"

AllFailed == \A k \in 1..Len(responses) : responses[k] \notin {"fixable", "object", "null"}

\* the forecaster is called at most max_retries times, never again after a
\* response that parses, and a parsed response is what is returned
BoundedFirstParseWins ==
  /\ attempt = Len(responses)
  /\ attempt <= max_retries
  /\ \A k \in 1..(Len(responses) - 1) : responses[k] \notin {"fixable", "object", "null"}
  /\ (Returned /\ ae_return = "result_json") =>
       (responses # <<>> /\ responses[Len(responses)] \in {"fixable", "object"})

\* C15 as claimed: at most max_retries calls, the first parsable response
\* returned without a further call, and None returned exactly when all
\* max_retries calls failed.
C15_NoneIffAllFailed ==
  /\ BoundedFirstParseWins
  /\ Returned => (ae_return = "None" <=> (attempt = max_retries /\ AllFailed))

\* C15 as amended: at most max_retries calls, the first parsable response
\* returned without a further call; None is returned exactly when no API key
\* is configured (no call made), when all max_retries calls failed, or when
\* the first parsable response is the JSON value null; and analyze_event
\* always returns.
C15_BoundedRetries ==
  /\ [](/\ BoundedFirstParseWins
        /\ Returned =>
             (ae_return = "None" <=>
                \/ (~api_key /\ attempt = 0)
                \/ (attempt = max_retries /\ AllFailed)
                \/ (responses # <<>> /\ responses[Len(responses)] = "null")))
  /\ <>Returned

\* two failed calls, then a third whose text parses once fixed
C15_Witness ==
  /\ Returned
  /\ max_retries = 3
  /\ attempt = 3
  /\ responses[1] = "api_error" /\ responses[2] = "unparsable" /\ responses[3] = "fixable"
  /\ ae_return = "result_json"

\* C16: a card never has more than one stored calibration result, and after
\* a completed run the result of every event the run stored is that single
\* one.
C16_ReplacedNeverAppended ==
  /\ \A c \in CardIds : Len(ai_predictions[c]) <= 1
  /\ ingest_pc = "done" =>
       \A i \in 1..Len(events_data) :
         ev_status[i] = "stored" =>
           ai_predictions[events_data[i].id]
             = <<NewPrediction(ev_result[i], events_data[i])>>

\* C17: after a cycle in which the forecaster failed for an event, the feed's
\* card of that event gives every market a final probability equal to its
\* baseline (no adjusted probability, or one equal to the baseline) and the
\* card's divergence score is 0.
C17_FailureServesBaseline ==
  ingest_pc = "done" =>
    \A i \in 1..Len(events_data) :
      ev_status[i] = "failed" =>
        LET card == BuildCardData(events_data[i].id)
        IN  /\ \A k \in 1..Len(card.markets) :
                 card.markets[k].ai_adjusted_probability
                   \in {Absent, card.markets[k].probability}
            /\ GetWeightedAlphaScore(card) = 0

BatchOver == ingest_pc \in {"done", "rolled_back", "raised"}

\* C18: when a batch of _process_ai_analysis is over, nothing was raised to
\* the caller, every event of the batch was dealt with, and the result of
\* every event the loop stored is in the table: a failed or malformed forecast
\* for one event costs no other event its result.
C18_BatchIsolation ==
  (runner = "crawler" /\ BatchOver) =>
    /\ ingest_pc # "raised"
    /\ ev_idx = Len(events_data)
    /\ \A i \in 1..Len(ev_status) :
         ev_status[i] = "stored" =>
           ai_predictions[events_data[i].id]
             = <<NewPrediction(ev_result[i], events_data[i])>>

\* ------------------------------------------------------ extractor claims
ExtractorsDone == ex_pc = "done"

\* the value of the first tier that has one: calculated_odds, the first
\* outcome price, the probability field, else 0.0
FirstAvailable(market) ==
  IF IsNumber(market.calculated_odds) THEN market.calculated_odds
  ELSE IF IsNumber(market.outcomePrices) THEN market.outcomePrices
  ELSE IF IsNumber(market.probability) THEN market.probability
  ELSE 0

\* C19: for a record whose calculated_odds and probability fields are numbers
\* or missing (outcomePrices being anything), _get_market_probability returns
\* the first available of calculated_odds, first outcome price, probability,
\* 0.0, an empty or malformed outcome-price list falling through, and the
\* value lies in [0, 1].
C19_FirstAvailableInUnitRange ==
  (/\ ExtractorsDone
   /\ ex_market.calculated_odds \notin {Null, NonNumeric}
   /\ ex_market.probability \notin {Null, NonNumeric})
  => /\ ex_gemini = FirstAvailable(ex_market)
     /\ ex_gemini \in 0..10000

\* C20: no exception leaves either extractor, whatever the record's fields
\* hold: a field that is null, non-numeric or unparsable makes the extraction
\* fall through to the next tier and at last to 0.0.
C20_NoExceptionEscapes ==
  ExtractorsDone =>
    /\ ex_gemini # Raises
    /\ ex_feed # Raises
    /\ ex_gemini = FirstAvailable(ex_market)

\* ------------------------------------------------- third group of claims
\* the market of the card's snapshot that has the identifier
SnapshotMarket(c, id) ==
  LET markets == event_cards[c].markets
  IN  markets[CHOOSE k \in 1..Len(markets) : markets[k].id = id]

\* C21: every market of every card object a successful response serves is
\* active and not archived in the card's snapshot.
C21_ServedMarketsActiveUnarchived ==
  (feed_pc = "done" /\ response.code = 200) =>
    \A i \in 1..Len(response.objects) :
      \A k \in 1..Len(response.objects[i].markets) :
        LET raw == SnapshotMarket(response.objects[i].id, response.objects[i].markets[k].id)
        IN  raw.active = TRUE /\ raw.archived = FALSE


\* ---------------------------------------------- the merge loop on its own
\* The zipper loop of get_card_list (cards.py:378-411) as an algorithm over
\* card_data_list: the list is drawn from the sequences of card dicts over a
\* small set of ids, so two dicts may carry the same id.  The candidate
\* query itself returns each card once (event_cards.polymarket_id is unique).
MaxMergeLen == 3
MaxMergeIds == 2

MergeCards == {[id |-> i, volume |-> v, markets |-> <<>>] : i \in 1..MaxMergeIds, v \in {1, 2}}

MergeInputs == UNION {[1..n -> MergeCards] : n \in 0..MaxMergeLen}

InitMerge ==
  /\ event_cards = [c \in CardIds |-> CardRow(Row(1, FALSE, FALSE, FALSE, FALSE, {}, EmptySnap))]
  /\ ai_predictions = [c \in CardIds |-> <<>>]
  /\ feed_pc = "sort"
  /\ tagId = Absent
  /\ card_data_list \in MergeInputs
  /\ total_count = Len(card_data_list)
  /\ list_volume = <<>> /\ list_alpha = <<>>
  /\ final_list = <<>> /\ used_ids = {} /\ ptr_vol = 0 /\ ptr_alpha = 0
  /\ turn_volume = TRUE /\ page = 1 /\ pageSize = 1
  /\ response = NoResponse
  /\ prev_input = <<>> /\ prev_merged = <<>>
  /\ IngestIdle
  /\ NormIdle
  /\ RetryIdle
  /\ ExtractIdle
  /\ SaveIdle /\ RunIdle

NextMerge == Sort \/ MergeStep \/ Paginate

\* the handler runs on: each pass of the loop is followed by the next
SpecMerge == InitMerge /\ [][NextMerge]_vars /\ WF_vars(NextMerge)

PredictionRow(card, by) == [card |-> card, by |-> by]

RowsOf(card, rows) == {r \in rows : r.card = card}

\* the pages: one or two distinct events, in either order
SaveBatches ==
  {b \in UNION {[1..n -> SaveEvents] : n \in 1..MaxSaveEvents} :
     \A i, j \in 1..Len(b) : b[i] = b[j] => i = j}

InitSave ==
  /\ event_cards = [c \in CardIds |-> CardRow(Row(1, FALSE, FALSE, FALSE, FALSE, {}, EmptySnap))]
  /\ ai_predictions = [c \in CardIds |-> <<>>]
  /\ FeedIdle
  /\ prev_input = <<>> /\ prev_merged = <<>>
  /\ IngestIdle
  /\ NormIdle
  /\ api_key \in BOOLEAN
  /\ max_retries = 0 /\ attempt = 0 /\ responses = <<>>
  /\ ae_return = "None" /\ ae_pc = "idle"
  /\ ExtractIdle
  /\ task_pc = [t \in SaveTasks |-> "main"]
  /\ task_batch \in [SaveTasks -> SaveBatches]
  /\ task_step = [t \in SaveTasks |-> 0]
  /\ task_idx = [t \in SaveTasks |-> 0]
  /\ task_calls = [t \in SaveTasks |-> 0]
  /\ tx_deleted = [t \in SaveTasks |-> {}]
  /\ tx_pending = [t \in SaveTasks |-> {}]
  /\ tx_snap = [t \in SaveTasks |-> {}]
  /\ db_cards = [e \in SaveEvents |-> 0]
  /\ db_snapshots = {}
  /\ db_links = [e \in SaveEvents |-> 0]
  /\ had_result \in SUBSET SaveEvents
  /\ db_predictions = {PredictionRow(e, 0) : e \in had_result}
  /\ observed = [e \in SaveEvents |-> Cardinality(RowsOf(e, db_predictions))]
  /\ RunIdle

SaveOthers == <<dbVars, feedVars, ingestVars, normVars, retryVars, extractVars, runVars>>

\* the events whose event_cards row the open main transaction of t has written
CardsWrittenBy(t) ==
  IF task_pc[t] = "main" /\ task_step[t] >= 2 THEN Range(task_batch[t]) ELSE {}

\* a write of the main transaction: the tags (step 1), the snapshots and the
\* card upserts (step 2), the tag links (step 3).  An upsert waits for an
\* open transaction that wrote the same card (crawler.py:80-207).
MainWrite(t) ==
  /\ task_pc[t] = "main" /\ task_step[t] < 3
  /\ task_step[t] = 1 =>
       \A u \in SaveTasks \ {t} : CardsWrittenBy(u) \cap Range(task_batch[t]) = {}
  /\ task_step' = [task_step EXCEPT ![t] = @ + 1]
  /\ UNCHANGED <<task_pc, task_batch, task_idx, task_calls, tx_deleted, tx_pending,
                 tx_snap, db_cards, db_snapshots, db_links, db_predictions,
                 had_result, observed>>
  /\ UNCHANGED SaveOthers

\* where save_batch goes after the main transaction (crawler.py:210-228):
\* on to the calibration when the commit succeeded and an API key is
\* configured, otherwise it returns
AfterMainGoesOn(committed, key) == IF key THEN "ai_loop" ELSE "done"

AfterMain(committed, key) ==
  IF ~committed THEN "rolled_back"
  ELSE IF key THEN "ai_loop" ELSE "done"

\* session.commit() of the main transaction (crawler.py:210)
MainCommit(t) ==
  /\ task_pc[t] = "main" /\ task_step[t] = 3
  /\ db_snapshots' = db_snapshots \cup {<<t, e>> : e \in Range(task_batch[t])}
  /\ db_cards' = [e \in SaveEvents |-> IF e \in Range(task_batch[t]) THEN t ELSE db_cards[e]]
  /\ db_links' = [e \in SaveEvents |->
                    IF e \in Range(task_batch[t]) /\ db_links[e] = 0 THEN t ELSE db_links[e]]
  /\ task_pc' = [task_pc EXCEPT ![t] = AfterMain(TRUE, api_key)]
  /\ UNCHANGED <<task_batch, task_step, task_idx, task_calls, tx_deleted, tx_pending,
                 tx_snap, db_predictions, had_result, observed>>
  /\ UNCHANGED SaveOthers

\* a statement or the commit of the main transaction raises: rollback and
\* return (crawler.py:217-221)
MainFail(t) ==
  /\ task_pc[t] = "main"
  /\ task_pc' = [task_pc EXCEPT ![t] = AfterMain(FALSE, api_key)]
  /\ UNCHANGED <<task_batch, task_step, task_idx, task_calls, tx_deleted, tx_pending,
                 tx_snap, db_cards, db_snapshots, db_links, db_predictions,
                 had_result, observed>>
  /\ UNCHANGED SaveOthers

\* the calibration loop reaches its next event and calls the forecaster
\* (crawler.py:241-264)
CallForecaster(t) ==
  /\ task_pc[t] = "ai_loop" /\ task_idx[t] < Len(task_batch[t])
  /\ task_pc' = [task_pc EXCEPT ![t] = "calling"]
  /\ task_calls' = [task_calls EXCEPT ![t] = @ + 1]
  /\ UNCHANGED <<task_batch, task_step, task_idx, tx_deleted, tx_pending, tx_snap,
                 db_cards, db_snapshots, db_links, db_predictions, had_result, observed>>
  /\ UNCHANGED SaveOthers

\* analyze_event raised or returned nothing: on to the next event
\* (crawler.py:265-270)
ForecasterFails(t) ==
  /\ task_pc[t] = "calling"
  /\ task_pc' = [task_pc EXCEPT ![t] = "ai_loop"]
  /\ task_idx' = [task_idx EXCEPT ![t] = @ + 1]
  /\ UNCHANGED <<task_batch, task_step, task_calls, tx_deleted, tx_pending, tx_snap,
                 db_cards, db_snapshots, db_links, db_predictions, had_result, observed>>
  /\ UNCHANGED SaveOthers

\* rows of the card that other open transactions have deleted
LockedByOthers(t, rows) == rows \cap UNION {tx_deleted[u] : u \in SaveTasks \ {t}}

\* analyze_event returned a result: the DELETE of the card's old rows is
\* executed, and when it need not wait the new row is added to the session
\* (crawler.py:272-317)
DeleteAndAdd(t) ==
  /\ task_pc[t] = "calling"
  /\ LET e == task_batch[t][task_idx[t] + 1]
         rows == RowsOf(e, db_predictions) \ tx_deleted[t]
     IN  IF LockedByOthers(t, rows) = {}
           THEN /\ tx_deleted' = [tx_deleted EXCEPT ![t] = @ \cup rows]
                /\ tx_pending' = [tx_pending EXCEPT ![t] = @ \cup {PredictionRow(e, t)}]
                /\ task_idx' = [task_idx EXCEPT ![t] = @ + 1]
                /\ task_pc' = [task_pc EXCEPT ![t] = "ai_loop"]
                /\ UNCHANGED tx_snap
           ELSE /\ tx_snap' = [tx_snap EXCEPT ![t] = rows]
                /\ task_pc' = [task_pc EXCEPT ![t] = "waiting"]
                /\ UNCHANGED <<tx_deleted, tx_pending, task_idx>>
  /\ UNCHANGED <<task_batch, task_step, task_calls, db_cards, db_snapshots, db_links,
                 db_predictions, had_result, observed>>
  /\ UNCHANGED SaveOthers

\* the transactions the DELETE waited for have ended: it deletes the rows it
\* had selected that still exist, and the new row is added to the session
ResumeDelete(t) ==
  /\ task_pc[t] = "waiting"
  /\ LockedByOthers(t, tx_snap[t]) = {}
  /\ LET e == task_batch[t][task_idx[t] + 1]
     IN  /\ tx_deleted' = [tx_deleted EXCEPT ![t] = @ \cup (tx_snap[t] \cap db_predictions)]
         /\ tx_pending' = [tx_pending EXCEPT ![t] = @ \cup {PredictionRow(e, t)}]
  /\ tx_snap' = [tx_snap EXCEPT ![t] = {}]
  /\ task_idx' = [task_idx EXCEPT ![t] = @ + 1]
  /\ task_pc' = [task_pc EXCEPT ![t] = "ai_loop"]
  /\ UNCHANGED <<task_batch, task_step, task_calls, db_cards, db_snapshots, db_links,
                 db_predictions, had_result, observed>>
  /\ UNCHANGED SaveOthers

\* session.commit() after the loop: the deletes and the inserts of the
\* transaction become visible together (crawler.py:320)
AiCommit(t) ==
  /\ task_pc[t] = "ai_loop" /\ task_idx[t] = Len(task_batch[t])
  /\ db_predictions' = (db_predictions \ tx_deleted[t]) \cup tx_pending[t]
  /\ tx_deleted' = [tx_deleted EXCEPT ![t] = {}]
  /\ tx_pending' = [tx_pending EXCEPT ![t] = {}]
  /\ task_pc' = [task_pc EXCEPT ![t] = "done"]
  /\ UNCHANGED <<task_batch, task_step, task_idx, task_calls, tx_snap, db_cards,
                 db_snapshots, db_links, had_result, observed>>
  /\ UNCHANGED SaveOthers

\* a statement or the commit of the calibration transaction raises (a lost
\* connection, a deadlock the database breaks): rollback (crawler.py:322-324)
AiFail(t) ==
  /\ task_pc[t] \in {"ai_loop", "calling", "waiting"}
  /\ tx_deleted' = [tx_deleted EXCEPT ![t] = {}]
  /\ tx_pending' = [tx_pending EXCEPT ![t] = {}]
  /\ tx_snap' = [tx_snap EXCEPT ![t] = {}]
  /\ task_pc' = [task_pc EXCEPT ![t] = "ai_rolled_back"]
  /\ UNCHANGED <<task_batch, task_step, task_idx, task_calls, db_cards, db_snapshots,
                 db_links, db_predictions, had_result>>
  /\ UNCHANGED observed
  /\ UNCHANGED SaveOthers

\* a feed or detail request loads the stored results of the cards
\* (cards.py:208-270, 466-480; event_card.py predictions relationship)
FeedQuery ==
  /\ observed' = [e \in SaveEvents |-> Cardinality(RowsOf(e, db_predictions))]
  /\ UNCHANGED <<task_pc, task_batch, task_step, task_idx, task_calls, tx_deleted,
                 tx_pending, tx_snap, db_cards, db_snapshots, db_links, db_predictions,
                 had_result>>
  /\ UNCHANGED SaveOthers

NextSave ==
  \/ \E t \in SaveTasks :
       \/ MainWrite(t) \/ MainCommit(t) \/ MainFail(t)
       \/ CallForecaster(t) \/ ForecasterFails(t) \/ DeleteAndAdd(t) \/ ResumeDelete(t)
       \/ AiCommit(t) \/ AiFail(t)
  \/ FeedQuery

SpecSave == InitSave /\ [][NextSave]_vars

\* --------------------------------------------------------- claims C23, C24
\* C23: a feed or detail query that runs while batches are calibrated never
\* loads two stored results for one card, and never loads none for a card
\* that had a result before the run
C23_NeverHalfReplaced ==
  \A e \in SaveEvents :
    /\ observed[e] <= 1
    /\ e \in had_result => observed[e] >= 1

SaveFinished == \A t \in SaveTasks : task_pc[t] \in {"done", "rolled_back", "ai_rolled_back"}

\* C24: when two batch tasks that hold the same event have both finished,
\* the event's card has exactly one stored result if it has any, and it has
\* one if it had one before
C24_OneResultAfterBoth ==
  SaveFinished =>
    \A e \in SaveEvents :
      (\A t \in SaveTasks : e \in Range(task_batch[t])) =>
        /\ RowsOf(e, db_predictions) # {} => Cardinality(RowsOf(e, db_predictions)) = 1
        /\ e \in had_result => RowsOf(e, db_predictions) # {}

\* ---------------------------------------------------------------- claim C26
\* task t has begun the calibration of its batch
Calibrating(t) ==
  \/ task_pc[t] \in {"ai_loop", "calling", "waiting", "ai_rolled_back"}
  \/ task_calls[t] > 0
  \/ tx_deleted[t] # {} \/ tx_pending[t] # {}
  \/ \E r \in db_predictions : r.by = t

\* C26: a batch is calibrated only once its cards, snapshots and tag links
\* are committed; a batch whose main transaction failed leaves no row, makes
\* no forecaster call and changes no stored result
C26_CalibrationAfterCommit ==
  \A t \in SaveTasks :
    /\ Calibrating(t) =>
         \A e \in Range(task_batch[t]) :
           <<t, e>> \in db_snapshots /\ db_cards[e] # 0 /\ db_links[e] # 0
    /\ task_pc[t] = "rolled_back" =>
         /\ \A e \in SaveEvents :
              <<t, e>> \notin db_snapshots /\ db_cards[e] # t /\ db_links[e] # t
         /\ ~Calibrating(t)

\* one batch failed at its commit, after all its writes, while the other is
\* waiting for the forecaster
C26_Witness ==
  \E t, u \in SaveTasks :
    /\ task_pc[t] = "rolled_back" /\ task_step[t] = 3
    /\ task_pc[u] = "calling"

\* ------------------------------------------------------- run_batch_crawl
\* The batch tasks of one run share a semaphore of CONCURRENCY permits
\* (crawler.py:333-366).  run_batch_crawl makes TOTAL_TARGET / BATCH_SIZE = 20
\* tasks; MaxRunTasks of them are modelled, one more than the permits.
CONCURRENCY == 5
MaxRunEvents == 2

InitRun ==
  /\ event_cards = [c \in CardIds |-> CardRow(Row(1, FALSE, FALSE, FALSE, FALSE, {}, EmptySnap))]
  /\ ai_predictions = [c \in CardIds |-> <<>>]
  /\ FeedIdle
  /\ prev_input = <<>> /\ prev_merged = <<>>
  /\ IngestIdle
  /\ NormIdle
  /\ api_key \in BOOLEAN
  /\ max_retries = 0 /\ attempt = 0 /\ responses = <<>>
  /\ ae_return = "None" /\ ae_pc = "idle"
  /\ ExtractIdle
  /\ SaveIdle
  /\ sem_value = CONCURRENCY
  /\ sem_waiters = <<>>
  /\ run_pc = [t \in RunTasks |-> "start"]
  /\ run_left = [t \in RunTasks |-> 0]

RunOthers == <<dbVars, feedVars, ingestVars, normVars, retryVars, extractVars, saveVars>>

\* asyncio.Semaphore.locked(): no permit is free, or a task waits already
NeverLocked(value, waiters) == FALSE

Locked(value, waiters) == value = 0 \/ waiters # <<>>

\* async with semaphore: the task takes a permit or joins the waiters
\* (crawler.py:335)
Acquire(t) ==
  /\ run_pc[t] = "start"
  /\ IF Locked(sem_value, sem_waiters)
       THEN /\ sem_waiters' = Append(sem_waiters, t)
            /\ run_pc' = [run_pc EXCEPT ![t] = "queued"]
            /\ UNCHANGED sem_value
       ELSE /\ sem_value' = sem_value - 1
            /\ run_pc' = [run_pc EXCEPT ![t] = "fetch"]
            /\ UNCHANGED sem_waiters
  /\ UNCHANGED run_left
  /\ UNCHANGED RunOthers

\* the end of the with block: the permit goes to the first waiter, or back
\* to the semaphore; the task is over
ReleaseTo(t, pc) ==
  IF sem_waiters # <<>>
    THEN /\ run_pc' = [pc EXCEPT ![t] = "done", ![Head(sem_waiters)] = "fetch"]
         /\ sem_waiters' = Tail(sem_waiters)
         /\ UNCHANGED sem_value
    ELSE /\ run_pc' = [pc EXCEPT ![t] = "done"]
         /\ sem_value' = sem_value + 1
         /\ UNCHANGED sem_waiters

\* fetch_page returns: no data (an empty page, or a failed request), or a
\* page of events handed to save_batch (crawler.py:336-343)
FetchPage(t) ==
  /\ run_pc[t] = "fetch"
  /\ \/ /\ ReleaseTo(t, run_pc)
        /\ UNCHANGED run_left
     \/ /\ \E n \in 1..MaxRunEvents : run_left' = [run_left EXCEPT ![t] = n]
        /\ run_pc' = [run_pc EXCEPT ![t] = "save"]
        /\ UNCHANGED <<sem_value, sem_waiters>>
  /\ UNCHANGED RunOthers

\* save_batch returns without calibrating, or after the last event: its
\* main transaction failed, no API key is configured, or the calibration
\* loop is through (crawler.py:217-221, 236-237, 320-324)
SaveBatchReturns(t) ==
  /\ run_pc[t] = "save"
  /\ ReleaseTo(t, run_pc)
  /\ run_left' = [run_left EXCEPT ![t] = 0]
  /\ UNCHANGED RunOthers

\* the calibration loop of the batch calls the forecaster for its next event
\* (crawler.py:241-264)
RunCall(t) ==
  /\ run_pc[t] = "save" /\ run_left[t] > 0 /\ api_key
  /\ run_pc' = [run_pc EXCEPT ![t] = "call"]
  /\ UNCHANGED <<sem_value, sem_waiters, run_left>>
  /\ UNCHANGED RunOthers

\* analyze_event returns or raises; the loop goes on (crawler.py:264-318)
RunCallReturns(t) ==
  /\ run_pc[t] = "call"
  /\ run_pc' = [run_pc EXCEPT ![t] = "save"]
  /\ run_left' = [run_left EXCEPT ![t] = @ - 1]
  /\ UNCHANGED <<sem_value, sem_waiters>>
  /\ UNCHANGED RunOthers

RunStep(t) ==
  Acquire(t) \/ FetchPage(t) \/ SaveBatchReturns(t) \/ RunCall(t) \/ RunCallReturns(t)

NextRun == \E t \in RunTasks : RunStep(t)

\* every awaited call of a task (the page request with its 30 s timeout, a
\* database statement, a forecaster call) returns or raises, so the event
\* loop always has a task to resume until all are over
SpecRun == InitRun /\ [][NextRun]_vars /\ WF_vars(NextRun)

\* ---------------------------------------------------------------- claim C25
Holding == {t \in RunTasks : run_pc[t] \in {"fetch", "save", "call"}}

InFlight == {t \in RunTasks : run_pc[t] = "call"}

\* C25: at most CONCURRENCY batch tasks are between the start of fetch_page
\* and the end of save_batch, at most CONCURRENCY forecaster calls are in
\* flight, and every batch task ends
C25_BoundedAndLive ==
  /\ [](Cardinality(Holding) <= CONCURRENCY /\ Cardinality(InFlight) <= CONCURRENCY)
  /\ <>(\A t \in RunTasks : run_pc[t] = "done")

\* all permits are taken, each holder has a call in flight, a task waits
C25_Witness ==
  /\ Cardinality(InFlight) = CONCURRENCY
  /\ sem_waiters # <<>>

\* ---------------------------------------------------------------- claim C27
\* list is input reordered by a permutation that is descending in key and
\* keeps the input order of cards with equal keys
IsStableDescOf(list, input, Key(_)) ==
  /\ Len(list) = Len(input)
  /\ \E p \in Perms(1..Len(input)) :
       /\ \A k \in 1..Len(input) : list[k] = input[p[k]]
       /\ \A a, b \in 1..Len(input) :
            a < b => \/ Key(input[p[a]]) > Key(input[p[b]])
                     \/ Key(input[p[a]]) = Key(input[p[b]]) /\ p[a] < p[b]

RankedListsBuilt == feed_pc \in {"merge", "done"}

\* C27: the volume-ranked list and the divergence-ranked list are both the
\* candidate list in descending order of their key, cards with equal keys in
\* their input order
C27_RankedListsStable ==
  RankedListsBuilt =>
    /\ IsStableDescOf(list_volume, card_data_list, GetVolumeScore)
    /\ IsStableDescOf(list_alpha, card_data_list, GetWeightedAlphaScore)

\* three candidates, two of equal volume, which the divergence score ranks
\* in another order than the volume does
C27_Witness ==
  /\ RankedListsBuilt
  /\ Len(card_data_list) = 3
  /\ \E i, j \in 1..3 :
       i # j /\ GetVolumeScore(card_data_list[i]) = GetVolumeScore(card_data_list[j])
  /\ list_volume # list_alpha
  /\ list_alpha # card_data_list

\* ---------------------------------------------------------------- claim C28
\* C28: with the classifier true and a total mass S that is not positive,
\* the base is 1: the call returns, and every market's final value is its
\* own calibrated value, or its baseline when it was not analyzed
C28_DegenerateMassKeepsValues ==
  (NormCallDone /\ ClassifierSays /\ TotalMass <= 0) =>
    /\ DOMAIN norm_out = Analyzed \cup DOMAIN Baselines
    /\ \A id \in DOMAIN norm_out :
         /\ norm_out[id]._normalized
         /\ norm_out[id].ai_calibrated_odds_pct =
              IF id \in Analyzed THEN norm_in.gemini_result.markets[id].ai_calibrated_odds
              ELSE Baselines[id]

\* three markets of mass zero and below: one calibrated to a negative value,
\* one calibrated to 0, one not analyzed with baseline 0
C28_Witness ==
  /\ NormCallDone /\ ClassifierSays
  /\ TotalMass < 0
  /\ Cardinality(DOMAIN norm_out) = 3
  /\ Cardinality(Analyzed) = 2
  /\ \E id \in Analyzed : norm_out[id].ai_calibrated_odds_pct = 0
  /\ \E id \in Analyzed : norm_out[id].ai_calibrated_odds_pct < 0

\* ---------------------------------------------------------------- claim C29
\* the percent value stored for market id of card c, in hundredths of a
\* percent: the final probability in basis points
StoredFinal(c, id) == ai_predictions[c][1].raw_analysis[id].ai_calibrated_odds_pct

HasStoredFinal(c, id) ==
  /\ Len(ai_predictions[c]) > 0
  /\ id \in DOMAIN ai_predictions[c][1].raw_analysis

\* C29: for every market of a served card that has a stored final
\* probability, the value the divergence scorer reads from the card dict and
\* the adjusted probability of the served MarketItem both equal the stored
\* probability
C29_ReadBackEqualsStored ==
  response.code = 200 =>
    \A i \in 1..Len(response.list) :
      LET card == response.list[i]
          served == response.objects[i]
      IN  /\ \A k \in 1..Len(card.markets) :
               HasStoredFinal(card.id, card.markets[k].id) =>
                 NormalizeProb(card.markets[k].ai_adjusted_probability)
                   = StoredFinal(card.id, card.markets[k].id)
          /\ \A k \in 1..Len(served.markets) :
               HasStoredFinal(served.id, served.markets[k].id) =>
                 served.markets[k].adjusted_probability
                   = StoredFinal(served.id, served.markets[k].id)

\* ---------------------------------------------------------------- claim C30
\* C30: for every raw market record the baseline the Normalizer takes, the
\* one the feed's scorer takes and the probability of the served MarketItem
\* are the same number
C30_ExtractorsAgree ==
  ex_pc = "done" => /\ ex_gemini = ex_feed
                    /\ ex_feed = ex_item

====
